---- MODULE Spec2Model ----
(***************************************************************************)
(* LiveSessionService (src/App.tsx:305-506): the connection state machine, *)
(* the audio contexts and capture processors it creates, the duplex        *)
(* transports it opens and the playback scheduler driven by inbound        *)
(* messages.                                                               *)
(*                                                                         *)
(* One connect() call is an "attempt" a \in Attempts.  The objects an      *)
(* attempt creates carry its number: the input and output AudioContext     *)
(* (ctxIn[a], ctxOut[a]), the transport returned by ai.live.connect        *)
(* (transport[a]) and the ScriptProcessorNode its onopen creates (proc[a]).*)
(* The service's fields hold such numbers, 0 standing for null.            *)
(*                                                                         *)
(* connect() and handleMessage() are async: each is split at its awaits.   *)
(* The continuation of handleMessage's await is a microtask, so only other *)
(* onmessage deliveries can run between its two halves; every other step   *)
(* waits for the decode queue to drain.                                    *)
(*                                                                         *)
(* The specifications share the actions.  Spec is the session life cycle   *)
(* with the failures of the devices, the microphone and the transports.    *)
(* SpecPlayback is the playback scheduler: sessions that are set up        *)
(* without a failure by a consumer that awaits connect() before calling it *)
(* again, their inbound messages, the playback clock and the sources.      *)
(* SpecReconnect follows the scheduling cursor over more such sessions.    *)
(* SpecCapture adds the capture callbacks of the processors to connect(),  *)
(* disconnect() and the transports.  SpecCodec applies the resampler and   *)
(* the frame codec of src/utils/audioUtils.ts to captured blocks.          *)
(***************************************************************************)
EXTENDS Integers, Sequences, FiniteSets, TLC

\* Bounds of the model.
MaxConnects == 3      \* connect() calls
MaxSessions == 2      \* connect() calls while the sources are followed
MaxUnits    == 2      \* playback units scheduled
MaxPending  == 1      \* handleMessage calls waiting at their await
MaxFaults   == 1      \* failures of the devices, the microphone, the transport
MaxClock    == 2      \* ticks of the playback clock of one output context
MaxDur      == 1      \* duration of an inbound audio frame, in ticks
MaxLen      == 3      \* samples in a captured block

Attempts == 1..MaxConnects

VARIABLES
    \* fields of LiveSessionService
    connectionState, currentSessionPromise, inputAudioContext,
    outputAudioContext, processor, outputNode, nextStartTime, audioSources,
    \* the objects behind the fields
    ctxIn, ctxOut, currentTime, transport, proc, units,
    \* positions of the async functions
    pc, resumeOutCtx, pending,
    \* what the consumer's callbacks have received
    analyserNode, errLog,
    \* the capture pipeline: the context each processor was created on, and
    \* what became of the frame sent on each session promise
    procCtx, outbound,
    \* the frame codec: a captured block, the native rate of the input
    \* device, and the stages the block goes through
    inputData, sampleRate, downsampledData, pcmBlob, channelData, stage,
    \* history
    failure, faults, last

fields  == <<connectionState, currentSessionPromise, inputAudioContext,
             outputAudioContext, processor, outputNode, nextStartTime,
             audioSources>>
objects == <<ctxIn, ctxOut, currentTime, transport, proc, units>>
async   == <<pc, resumeOutCtx, pending>>
seen    == <<analyserNode, errLog>>
history == <<failure, faults, last>>
codec   == <<inputData, sampleRate, downsampledData, pcmBlob, channelData,
             stage>>
capture == <<procCtx, outbound, codec>>
vars    == <<fields, objects, async, seen, history, capture>>

Max(x, y) == IF x >= y THEN x ELSE y

----------------------------------------------------------------------------
\* The frame codec and the resampler (src/utils/audioUtils.ts).
\*
\* A float sample is the rational num/den, den > 0; the samples of one block
\* share their denominator.  Float32 rounding of a mean is not modelled.

Scale      == 32768     \* the factor between a float sample and 16-bit PCM
TargetRate == 16000     \* the rate downsampleBuffer is asked for, in Hz

Min(x, y) == IF x <= y THEN x ELSE y

\* The native rates of the input device, in Hz.
NativeRates == {8000, TargetRate, 22050, 32000, 44100, 48000}

\* Captured sample values: -1, 0 and 1, their neighbours at half the
\* resolution of 16-bit PCM, and values on which the clamp acts.
Samples ==
    {[num |-> n, den |-> 2 * Scale] :
        n \in {-2 * Scale - 1, -2 * Scale, -1, 0, 1, Scale + 1,
               2 * Scale - 1, 2 * Scale, 2 * Scale + 1}}

Blocks == UNION {[1..n -> Samples] : n \in 0..MaxLen}

\* A rounding that drops the fraction.
roundDown(n, d) == n \div d

\* Math.round of the rational n/d, d > 0: halves go up.
round(n, d) == (2 * n + d) \div (2 * d)

\* Window bounds that drop the fraction.
offsetBufferFloor(k, inputSampleRate, targetSampleRate) ==
    (k * inputSampleRate) \div targetSampleRate

\* The window of input indices (from 0) averaged into output sample k.
offsetBuffer(k, inputSampleRate, targetSampleRate) ==
    round(k * inputSampleRate, targetSampleRate)

\* downsampleBuffer without the early return for a lower input rate.
downsampleBufferNoPassThrough(buffer, inputSampleRate, targetSampleRate) ==
    IF inputSampleRate = targetSampleRate THEN buffer
    ELSE LET newLength == round(Len(buffer) * targetSampleRate, inputSampleRate)
             window(k) == {i \in 0..(Len(buffer) - 1) :
                             /\ i >= offsetBuffer(k, inputSampleRate, targetSampleRate)
                             /\ i < offsetBuffer(k + 1, inputSampleRate, targetSampleRate)}
             accum[S \in SUBSET (0..(Len(buffer) - 1))] ==
                 IF S = {} THEN 0
                 ELSE LET i == CHOOSE j \in S : TRUE
                      IN  buffer[i + 1].num + accum[S \ {i}]
         IN  [k \in 1..newLength |->
                IF window(k - 1) = {} THEN [num |-> 0, den |-> 1]
                ELSE [num |-> accum[window(k - 1)],
                      den |-> buffer[1].den * Cardinality(window(k - 1))]]

\* downsampleBuffer: the block itself when the input rate is the target rate
\* or below it; otherwise round(length / ratio) samples, each the mean of
\* the input samples in its window, 0 for an empty window.
downsampleBuffer(buffer, inputSampleRate, targetSampleRate) ==
    IF inputSampleRate = targetSampleRate THEN buffer
    ELSE IF inputSampleRate < targetSampleRate THEN buffer
    ELSE LET newLength == round(Len(buffer) * targetSampleRate, inputSampleRate)
             window(k) == {i \in 0..(Len(buffer) - 1) :
                             /\ i >= offsetBuffer(k, inputSampleRate, targetSampleRate)
                             /\ i < offsetBuffer(k + 1, inputSampleRate, targetSampleRate)}
             accum[S \in SUBSET (0..(Len(buffer) - 1))] ==
                 IF S = {} THEN 0
                 ELSE LET i == CHOOSE j \in S : TRUE
                      IN  buffer[i + 1].num + accum[S \ {i}]
         IN  [k \in 1..newLength |->
                IF window(k - 1) = {} THEN [num |-> 0, den |-> 1]
                ELSE [num |-> accum[window(k - 1)],
                      den |-> buffer[1].den * Cardinality(window(k - 1))]]

\* Math.max(-1, Math.min(1, x))
clamp(x) ==
    IF x.num > x.den THEN [num |-> 1, den |-> 1]
    ELSE IF x.num < -x.den THEN [num |-> -1, den |-> 1]
    ELSE x

\* n/d truncated toward zero, d > 0.
trunc(n, d) == IF n >= 0 THEN n \div d ELSE -((-n) \div d)

\* The store of a number into an Int16Array element: truncated toward zero
\* and wrapped into 16 bits, two's complement.
ToInt16(n, d) ==
    LET m == trunc(n, d) % 2^16
    IN  IF m >= 2^15 THEN m - 2^16 ELSE m

\* x * 32768 stored into an Int16Array element (the product is formed
\* without leaving 32 bits when the denominator is a multiple of 32768).
toPcm(x) ==
    IF x.den % Scale = 0 THEN ToInt16(x.num, x.den \div Scale)
    ELSE ToInt16(x.num * Scale, x.den)

\* new Uint8Array(int16.buffer): two bytes per sample, low byte first.
bytesOf(int16) ==
    [i \in 1..(2 * Len(int16)) |->
        LET u == int16[(i + 1) \div 2] % 2^16
        IN  IF i % 2 = 1 THEN u % 256 ELSE u \div 256]

\* new Int16Array(data.buffer): the inverse view.
int16Of(bytes) ==
    [i \in 1..(Len(bytes) \div 2) |->
        LET u == bytes[2 * i - 1] + 256 * bytes[2 * i]
        IN  IF u >= 2^15 THEN u - 2^16 ELSE u]

\* bytesToBase64 (btoa of the binary string): a base64 text is the sequence
\* of its characters' values 0..63, 64 standing for the padding '='.
RECURSIVE bytesToBase64(_)
bytesToBase64(bytes) ==
    IF Len(bytes) = 0 THEN <<>>
    ELSE IF Len(bytes) = 1
    THEN <<bytes[1] \div 4, (bytes[1] % 4) * 16, 64, 64>>
    ELSE IF Len(bytes) = 2
    THEN <<bytes[1] \div 4, (bytes[1] % 4) * 16 + bytes[2] \div 16,
           (bytes[2] % 16) * 4, 64>>
    ELSE <<bytes[1] \div 4, (bytes[1] % 4) * 16 + bytes[2] \div 16,
           (bytes[2] % 16) * 4 + bytes[3] \div 64, bytes[3] % 64>>
         \o bytesToBase64(SubSeq(bytes, 4, Len(bytes)))

\* base64ToBytes (atob, then the char codes) of a padded base64 text.
RECURSIVE base64ToBytes(_)
base64ToBytes(base64) ==
    IF Len(base64) < 4 THEN <<>>
    ELSE LET c == SubSeq(base64, 1, 4)
             b1 == c[1] * 4 + c[2] \div 16
             b2 == (c[2] % 16) * 16 + c[3] \div 4
             b3 == (c[3] % 4) * 64 + c[4]
         IN  (IF c[3] = 64 THEN <<b1>>
              ELSE IF c[4] = 64 THEN <<b1, b2>>
              ELSE <<b1, b2, b3>>)
             \o base64ToBytes(SubSeq(base64, 5, Len(base64)))

\* createPcmBlob: clamp, scale, store as 16-bit PCM, base64.
createPcmBlob(data) ==
    [data |-> bytesToBase64(bytesOf([i \in 1..Len(data) |->
                                        toPcm(clamp(data[i]))])),
     mimeType |-> "audio/pcm;rate=16000"]

\* decodeAudioData with one channel: each 16-bit sample divided by 32768.
decodeAudioData(data) ==
    [i \in 1..Len(int16Of(data)) |-> [num |-> int16Of(data)[i], den |-> Scale]]


\* ConnectionState enum
ConnectionStates == {"DISCONNECTED", "CONNECTING", "CONNECTED", "ERROR"}

\* A playback unit (AudioBufferSourceNode): its state, the time its buffer
\* ends on the clock of its context, and that context.  A unit whose
\* 'ended' listener has run is kept as Ended.
Ended == [st |-> "ended", end |-> 0, ctx |-> 0]

\* last: the unit scheduled last (n units so far): the start time given to
\* source.start, the duration of its buffer, the clock when it was
\* scheduled, the end of the unit scheduled before it, whether an
\* interruption was handled between the two (afterInterrupt) and whether
\* one has been handled since (interrupted); handled tells whether the
\* handleMessage call that completed last had the interrupted flag, and
\* malformed whether its audio payload failed to decode.
NoUnit == [n |-> 0, start |-> 0, dur |-> 0, clock |-> 0, prevEnd |-> 0,
           interrupted |-> FALSE, afterInterrupt |-> FALSE,
           handled |-> "none", malformed |-> FALSE]

InitService ==
    /\ connectionState = "DISCONNECTED"
    /\ currentSessionPromise = 0
    /\ inputAudioContext = 0
    /\ outputAudioContext = 0
    /\ processor = 0
    /\ outputNode = 0
    /\ nextStartTime = 0
    /\ audioSources = {}
    /\ ctxIn = [a \in Attempts |-> "none"]
    /\ ctxOut = [a \in Attempts |-> "none"]
    /\ currentTime = 0
    /\ transport = [a \in Attempts |-> "none"]
    /\ proc = [a \in Attempts |-> "none"]
    /\ units = <<>>
    /\ pc = [a \in Attempts |-> "idle"]
    /\ resumeOutCtx = [a \in Attempts |-> 0]
    /\ pending = <<>>
    /\ analyserNode = 0
    /\ errLog = [a \in Attempts |-> <<>>]
    /\ procCtx = [a \in Attempts |-> 0]
    /\ outbound = [a \in Attempts |-> "none"]
    /\ failure = [a \in Attempts |-> "none"]
    /\ faults = 0
    /\ last = NoUnit

Init ==
    /\ InitService
    /\ inputData = <<>>
    /\ sampleRate = TargetRate
    /\ downsampledData = <<>>
    /\ pcmBlob = createPcmBlob(<<>>)
    /\ channelData = <<>>
    /\ stage = "idle"

----------------------------------------------------------------------------
\* stopAllAudio without its try/catch: the stop() of a source that already
\* finished throws, the sources after it in the set's (insertion) order keep
\* playing and the set is not cleared.
stopAllAudioUncaught(us, srcs) ==
    LET done == {i \in srcs : us[i].st = "finished"}
        upto == IF done = {} THEN Len(us) + 1
                ELSE CHOOSE i \in done : \A j \in done : i <= j
    IN  [units |-> [i \in DOMAIN us |->
                      IF i \in srcs /\ i < upto /\ us[i].st = "scheduled"
                      THEN [us[i] EXCEPT !.st = "stopped"] ELSE us[i]],
         audioSources |-> IF done = {} THEN {} ELSE srcs]

\* stopAllAudio: stop() every source of the set, swallowing a failing stop,
\* then clear the set.  A source that already finished stays finished.
stopAllAudio(us, srcs) ==
    [units |-> [i \in DOMAIN us |->
                  IF i \in srcs /\ us[i].st = "scheduled"
                  THEN [us[i] EXCEPT !.st = "stopped"] ELSE us[i]],
     audioSources |-> {}]

\* disconnect() without its guard on DISCONNECTED.
disconnectUnguarded ==
    /\ units' = stopAllAudio(units, audioSources).units
    /\ audioSources' = stopAllAudio(units, audioSources).audioSources
    /\ analyserNode' = 0
    /\ proc' = IF processor # 0
               THEN [proc EXCEPT ![processor] = "detached"] ELSE proc
    /\ ctxIn' = IF inputAudioContext # 0
                THEN [ctxIn EXCEPT ![inputAudioContext] = "closed"]
                ELSE ctxIn
    /\ ctxOut' = IF outputAudioContext # 0
                 THEN [ctxOut EXCEPT ![outputAudioContext] = "closed"]
                 ELSE ctxOut
    /\ connectionState' = "DISCONNECTED"

\* disconnect(): the effect on the state it touches; its callers leave the
\* rest unchanged.
disconnect ==
    IF connectionState = "DISCONNECTED"
    THEN UNCHANGED <<units, audioSources, analyserNode, proc, ctxIn, ctxOut,
                     connectionState>>
    ELSE /\ units' = stopAllAudio(units, audioSources).units
         /\ audioSources' = stopAllAudio(units, audioSources).audioSources
         /\ analyserNode' = 0
         /\ proc' = IF processor # 0
                    THEN [proc EXCEPT ![processor] = "detached"] ELSE proc
         /\ ctxIn' = IF inputAudioContext # 0
                     THEN [ctxIn EXCEPT ![inputAudioContext] = "closed"]
                     ELSE ctxIn
         /\ ctxOut' = IF outputAudioContext # 0
                      THEN [ctxOut EXCEPT ![outputAudioContext] = "closed"]
                      ELSE ctxOut
         /\ connectionState' = "DISCONNECTED"

\* The consumer calls disconnect() (handleStop, unmount cleanup).
Disconnect ==
    /\ pending = <<>>
    /\ disconnect
    /\ UNCHANGED <<currentSessionPromise, inputAudioContext,
                   outputAudioContext, processor, outputNode, nextStartTime,
                   currentTime, transport, async, errLog, failure,
                   last, faults, capture>>

----------------------------------------------------------------------------
\* connect()

\* A failure of the environment: a constructor that throws, a resume that
\* fails, a denied microphone, a transport that rejects or reports an error.
Fault == faults < MaxFaults /\ faults' = faults + 1

\* A catch block that surfaces the message twice.
connectCatchTwice(a, msg) ==
    /\ errLog' = [errLog EXCEPT ![a] = Append(Append(@, msg), msg)]
    /\ connectionState' = "ERROR"
    /\ pc' = [pc EXCEPT ![a] = "failed"]

\* The catch block of connect(): surface the message, then go to ERROR.
connectCatch(a, msg) ==
    /\ errLog' = [errLog EXCEPT ![a] = Append(@, msg)]
    /\ connectionState' = "ERROR"
    /\ pc' = [pc EXCEPT ![a] = "failed"]

\* Step 2 of connect(): analyser and gain node on the output context the
\* field holds now, onAnalyzerReady, then the getUserMedia await.
setupGraph(a, o) ==
    /\ outputNode' = o
    /\ analyserNode' = o
    /\ pc' = [pc EXCEPT ![a] = "getUserMedia"]

\* A connect() that does not look at the state.
alreadyConnectedIgnored == FALSE

\* The guard of connect(): return at once when the state is CONNECTED.
alreadyConnected == connectionState = "CONNECTED"

\* connect() from the call to its first await (or to the catch block).
\* sIn, sOut: the state the browser gives the new contexts; fail: which
\* constructor throws, if any.
Connect(sIn, sOut, fail) ==
    LET a == Cardinality({b \in Attempts : pc[b] # "idle"}) + 1 IN
    /\ pending = <<>>
    /\ a \in Attempts
    /\ UNCHANGED <<currentSessionPromise, processor, nextStartTime,
                   audioSources, transport, proc, units, pending,
                   last, capture>>
    /\ IF alreadyConnected
       THEN /\ fail = "none"
            /\ pc' = [pc EXCEPT ![a] = "returned"]
            /\ UNCHANGED <<connectionState, inputAudioContext,
                           outputAudioContext, outputNode, ctxIn, ctxOut,
                           currentTime, resumeOutCtx, seen, failure, faults>>
       ELSE CASE fail = "ctxIn" ->
                 /\ Fault
                 /\ connectCatch(a, fail)
                 /\ failure' = [failure EXCEPT ![a] = fail]
                 /\ UNCHANGED <<inputAudioContext, outputAudioContext,
                                outputNode, ctxIn, ctxOut, currentTime,
                                resumeOutCtx, analyserNode>>
              [] fail = "ctxOut" ->
                 /\ Fault
                 /\ inputAudioContext' = a
                 /\ ctxIn' = [ctxIn EXCEPT ![a] = sIn]
                 /\ connectCatch(a, fail)
                 /\ failure' = [failure EXCEPT ![a] = fail]
                 /\ UNCHANGED <<outputAudioContext, outputNode, ctxOut,
                                currentTime, resumeOutCtx, analyserNode>>
              [] fail = "none" ->
                 /\ inputAudioContext' = a
                 /\ outputAudioContext' = a
                 /\ ctxIn' = [ctxIn EXCEPT ![a] = sIn]
                 /\ ctxOut' = [ctxOut EXCEPT ![a] = sOut]
                 /\ currentTime' = 0
                 /\ connectionState' = "CONNECTING"
                 /\ UNCHANGED <<errLog, failure, faults>>
                 /\ IF sIn = "suspended"
                    THEN /\ pc' = [pc EXCEPT ![a] = "resumeIn"]
                         /\ UNCHANGED <<outputNode, analyserNode, resumeOutCtx>>
                    ELSE IF sOut = "suspended"
                    THEN /\ pc' = [pc EXCEPT ![a] = "resumeOut"]
                         /\ resumeOutCtx' = [resumeOutCtx EXCEPT ![a] = a]
                         /\ UNCHANGED <<outputNode, analyserNode>>
                    ELSE /\ setupGraph(a, a)
                         /\ UNCHANGED resumeOutCtx

\* await this.inputAudioContext.resume() settles.  The promise of a context
\* closed in the meantime rejects; ok = FALSE is a device failure.
ResumeIn(a, ok) ==
    /\ pending = <<>>
    /\ pc[a] = "resumeIn"
    /\ ctxIn[a] = "closed" => ~ok
    /\ UNCHANGED <<currentSessionPromise, inputAudioContext,
                   outputAudioContext, processor, nextStartTime, audioSources,
                   ctxOut, currentTime, transport, proc, units, pending,
                   last, capture>>
    /\ IF ok \/ ctxIn[a] = "closed" THEN UNCHANGED faults ELSE Fault
    /\ IF ~ok
       THEN /\ connectCatch(a, "resumeIn")
            /\ failure' = [failure EXCEPT ![a] = "resumeIn"]
            /\ UNCHANGED <<outputNode, ctxIn, resumeOutCtx, analyserNode>>
       ELSE /\ ctxIn' = [ctxIn EXCEPT ![a] = "running"]
            /\ UNCHANGED <<connectionState, errLog, failure>>
            /\ IF ctxOut[outputAudioContext] = "suspended"
               THEN /\ pc' = [pc EXCEPT ![a] = "resumeOut"]
                    /\ resumeOutCtx' =
                           [resumeOutCtx EXCEPT ![a] = outputAudioContext]
                    /\ UNCHANGED <<outputNode, analyserNode>>
               ELSE /\ setupGraph(a, outputAudioContext)
                    /\ UNCHANGED resumeOutCtx

\* await this.outputAudioContext.resume() settles.
ResumeOut(a, ok) ==
    /\ pending = <<>>
    /\ pc[a] = "resumeOut"
    /\ ctxOut[resumeOutCtx[a]] = "closed" => ~ok
    /\ UNCHANGED <<currentSessionPromise, inputAudioContext,
                   outputAudioContext, processor, nextStartTime, audioSources,
                   ctxIn, currentTime, transport, proc, units, resumeOutCtx,
                   pending, last, capture>>
    /\ IF ok \/ ctxOut[resumeOutCtx[a]] = "closed"
       THEN UNCHANGED faults ELSE Fault
    /\ IF ~ok
       THEN /\ connectCatch(a, "resumeOut")
            /\ failure' = [failure EXCEPT ![a] = "resumeOut"]
            /\ UNCHANGED <<outputNode, ctxOut, analyserNode>>
       ELSE /\ ctxOut' = [ctxOut EXCEPT ![resumeOutCtx[a]] = "running"]
            /\ setupGraph(a, outputAudioContext)
            /\ UNCHANGED <<connectionState, errLog, failure>>

\* await navigator.mediaDevices.getUserMedia settles; when granted connect()
\* assigns the promise of ai.live.connect and returns.
GetUserMedia(a, granted) ==
    /\ pending = <<>>
    /\ pc[a] = "getUserMedia"
    /\ UNCHANGED <<inputAudioContext, outputAudioContext, processor,
                   outputNode, nextStartTime, audioSources, ctxIn, ctxOut,
                   currentTime, proc, units, resumeOutCtx, pending,
                   analyserNode, last, capture>>
    /\ IF granted
       THEN /\ currentSessionPromise' = a
            /\ transport' = [transport EXCEPT ![a] = "pending"]
            /\ pc' = [pc EXCEPT ![a] = "done"]
            /\ UNCHANGED <<connectionState, errLog, failure, faults>>
       ELSE /\ Fault
            /\ connectCatch(a, "mic")
            /\ failure' = [failure EXCEPT ![a] = "mic"]
            /\ UNCHANGED <<currentSessionPromise, transport>>

----------------------------------------------------------------------------
\* The transport of attempt a: the callbacks connect() hands to
\* ai.live.connect.  The service never closes a transport itself.

\* onopen: updateState(CONNECTED), then startAudioInput(stream), which
\* creates the processor on the input context the field holds now.  The
\* session promise resolves right after onopen: a send queued on it runs.
TransportOpen(a) ==
    /\ pending = <<>>
    /\ transport[a] = "pending"
    /\ transport' = [transport EXCEPT ![a] = "open"]
    /\ connectionState' = "CONNECTED"
    /\ IF inputAudioContext = 0
       THEN UNCHANGED <<proc, processor, procCtx>>
       ELSE /\ proc' = [proc EXCEPT ![a] = "attached"]
            /\ processor' = a
            /\ procCtx' = [procCtx EXCEPT ![a] = inputAudioContext]
    /\ outbound' = [outbound EXCEPT ![a] = IF @ = "queued" THEN "sent" ELSE @]
    /\ UNCHANGED codec
    /\ UNCHANGED <<currentSessionPromise, inputAudioContext,
                   outputAudioContext, outputNode, nextStartTime,
                   audioSources, ctxIn, ctxOut, currentTime, units, async,
                   seen, failure, last, faults>>

\* The promise returned by ai.live.connect rejects before the transport
\* opens.  connect() never awaits it and attaches no rejection handler.
TransportReject(a) ==
    /\ pending = <<>>
    /\ transport[a] = "pending"
    /\ transport' = [transport EXCEPT ![a] = "rejected"]
    /\ Fault
    /\ UNCHANGED <<fields, ctxIn, ctxOut, currentTime, proc, units, async,
                   seen, failure, last, capture>>

\* onerror: callbacks.onError(err.message), then disconnect().
TransportError(a) ==
    /\ pending = <<>>
    /\ transport[a] \in {"pending", "open"}
    /\ transport' = [transport EXCEPT ![a] = "errored"]
    /\ errLog' = [errLog EXCEPT ![a] = Append(@, "transport")]
    /\ disconnect
    /\ Fault
    /\ UNCHANGED <<currentSessionPromise, inputAudioContext,
                   outputAudioContext, processor, outputNode, nextStartTime,
                   currentTime, async, failure, last, capture>>

\* onclose: disconnect().
TransportClose(a) ==
    /\ pending = <<>>
    /\ transport[a] \in {"pending", "open", "errored"}
    /\ transport' = [transport EXCEPT ![a] = "closed"]
    /\ disconnect
    /\ UNCHANGED <<currentSessionPromise, inputAudioContext,
                   outputAudioContext, processor, outputNode, nextStartTime,
                   currentTime, async, errLog, failure, last,
                   faults, capture>>

----------------------------------------------------------------------------
\* handleMessage().  The playback state it works on is passed as a record
\* [units, audioSources, nextStartTime, last].

Playback == [units |-> units, audioSources |-> audioSources,
             nextStartTime |-> nextStartTime, last |-> last]

\* Math.max(this.nextStartTime, this.outputAudioContext.currentTime)
startTime(nst, now) == Max(nst, now)

\* Lines 449-461: the cursor is moved up to the clock, the source is created
\* on the current output context and connected to outputNode, started at the
\* cursor, the cursor advanced by the duration and the source tracked.
\* source.connect throws when outputNode belongs to another context (a new
\* connect() has replaced outputAudioContext but not yet outputNode); the
\* catch drops the frame, the cursor having moved already.
schedule(p, dur) ==
    LET t == startTime(p.nextStartTime, currentTime) IN
    IF outputNode # outputAudioContext
    THEN [p EXCEPT !.nextStartTime = t]
    ELSE [units |-> Append(p.units, [st |-> "scheduled", end |-> t + dur,
                                     ctx |-> outputAudioContext]),
          audioSources |-> p.audioSources \cup {Len(p.units) + 1},
          nextStartTime |-> t + dur,
          last |-> [n |-> Len(p.units) + 1, start |-> t, dur |-> dur,
                    clock |-> currentTime, prevEnd |-> p.last.start + p.last.dur,
                    interrupted |-> FALSE,
                    afterInterrupt |-> p.last.interrupted,
                    handled |-> p.last.handled,
                    malformed |-> p.last.malformed]]

\* Lines 468-471: stopAllAudio(), nextStartTime = 0.
interrupted(p) ==
    [units |-> stopAllAudio(p.units, p.audioSources).units,
     audioSources |-> stopAllAudio(p.units, p.audioSources).audioSources,
     nextStartTime |-> 0,
     last |-> [p.last EXCEPT !.interrupted = TRUE]]

\* A handleMessage that moves the cursor up to the clock before it decodes.
finishCursorFirst(m) ==
    LET p0 == IF m.audio = "none" THEN Playback
              ELSE [Playback EXCEPT
                       !.nextStartTime = startTime(nextStartTime, currentTime)]
        p1 == IF m.audio = "ok" THEN schedule(p0, m.dur) ELSE p0
        p2 == IF m.interrupted THEN interrupted(p1) ELSE p1
    IN  /\ units' = p2.units
        /\ audioSources' = p2.audioSources
        /\ nextStartTime' = p2.nextStartTime
        /\ last' = [p2.last EXCEPT !.handled = IF m.interrupted
                                                THEN "interrupted"
                                                ELSE "plain",
                                    !.malformed = m.audio \in {"badB64", "odd"}]

\* The part of handleMessage after the await, for message m.  A payload
\* that fails to decode throws before line 449 and is dropped by the catch.
finish(m) ==
    LET p1 == IF m.audio = "ok" THEN schedule(Playback, m.dur) ELSE Playback
        p2 == IF m.interrupted THEN interrupted(p1) ELSE p1
    IN  /\ units' = p2.units
        /\ audioSources' = p2.audioSources
        /\ nextStartTime' = p2.nextStartTime
        /\ last' = [p2.last EXCEPT !.handled = IF m.interrupted
                                                THEN "interrupted"
                                                ELSE "plain",
                                    !.malformed = m.audio \in {"badB64", "odd"}]

Durations == 1..MaxDur

\* audio: "none" no payload; "ok" decodable PCM of duration dur; "badB64"
\* atob throws; "odd" an odd byte count, on which new Int16Array throws
\* inside the async decodeAudioData.
Messages ==
    [audio : {"ok"}, dur : Durations, interrupted : BOOLEAN]
    \cup [audio : {"none", "badB64", "odd"}, dur : {0}, interrupted : BOOLEAN]

\* onmessage: handleMessage(m) up to its await, or to its end when it does
\* not await (no payload, no output graph, or atob throwing inside the try).
\* A message may be delivered while an earlier handleMessage waits at its
\* await; at most MaxPending calls wait at a time.
HandleMessage(a, m) ==
    /\ transport[a] = "open"
    /\ (m.audio \in {"ok", "odd"} /\ outputAudioContext # 0 /\ outputNode # 0)
          => Len(pending) < MaxPending
    /\ m.audio = "ok" =>
          Len(units) + Cardinality({i \in DOMAIN pending :
                                     pending[i].audio = "ok"}) < MaxUnits
    /\ UNCHANGED <<connectionState, currentSessionPromise, inputAudioContext,
                   outputAudioContext, processor, outputNode, ctxIn, ctxOut,
                   currentTime, transport, proc, pc, resumeOutCtx, seen,
                   failure, faults, capture>>
    /\ IF m.audio \in {"ok", "odd"} /\ outputAudioContext # 0 /\ outputNode # 0
       THEN /\ pending' = Append(pending, m)
            /\ UNCHANGED <<units, audioSources, nextStartTime,
                           last>>
       ELSE /\ finish(IF /\ m.audio = "badB64"
                          /\ outputAudioContext # 0 /\ outputNode # 0
                       THEN m ELSE [m EXCEPT !.audio = "none"])
            /\ UNCHANGED pending

\* The await of decodeAudioData settles: the oldest waiting handleMessage
\* runs to its end.
HandleMessageResume ==
    /\ pending # <<>>
    /\ finish(Head(pending))
    /\ pending' = Tail(pending)
    /\ UNCHANGED <<connectionState, currentSessionPromise, inputAudioContext,
                   outputAudioContext, processor, outputNode, ctxIn, ctxOut,
                   currentTime, transport, proc, pc, resumeOutCtx, seen,
                   failure, faults, capture>>

----------------------------------------------------------------------------
\* The playback clock and the sources.

\* outputAudioContext.currentTime advances while that context runs.
Tick ==
    /\ pending = <<>>
    /\ outputAudioContext # 0
    /\ ctxOut[outputAudioContext] = "running"
    /\ currentTime < MaxClock
    /\ currentTime' = currentTime + 1
    /\ UNCHANGED <<fields, ctxIn, ctxOut, transport, proc, units, async,
                   seen, failure, last, faults, capture>>

\* A source plays to its end: on the current context once the clock has
\* passed its end, on an earlier context that still runs at any time.
SourceFinishes(u) ==
    /\ pending = <<>>
    /\ u \in DOMAIN units
    /\ units[u].st = "scheduled"
    /\ ctxOut[units[u].ctx] = "running"
    /\ units[u].ctx = outputAudioContext
          => currentTime >= units[u].end
    /\ units' = [units EXCEPT ![u].st = "finished"]
    /\ UNCHANGED <<fields, ctxIn, ctxOut, currentTime, transport, proc,
                   async, seen, failure, last, faults,
                   capture>>

\* An 'ended' listener that leaves the source in the set.
SourceEndedNoDelete(u) ==
    /\ pending = <<>>
    /\ u \in DOMAIN units
    /\ units[u].st \in {"finished", "stopped"}
    /\ units' = [units EXCEPT ![u] = Ended]
    /\ UNCHANGED <<fields, ctxIn, ctxOut, currentTime, transport, proc,
                   async, seen, failure, last, faults, capture>>

\* The 'ended' listener of a finished or stopped source:
\* this.audioSources.delete(source).
SourceEnded(u) ==
    /\ pending = <<>>
    /\ u \in DOMAIN units
    /\ units[u].st \in {"finished", "stopped"}
    /\ units' = [units EXCEPT ![u] = Ended]
    /\ audioSources' = audioSources \ {u}
    /\ UNCHANGED <<connectionState, currentSessionPromise, inputAudioContext,
                   outputAudioContext, processor, outputNode, nextStartTime,
                   ctxIn, ctxOut, currentTime, transport, proc, async, seen,
                   failure, last, faults, capture>>

----------------------------------------------------------------------------
CtxStates == {"running", "suspended"}

\* The session life cycle: connect() and disconnect() calls, the settling of
\* connect()'s awaits and the events of the transports, failures included.
Next ==
    \/ \E sIn \in CtxStates, sOut \in CtxStates,
          fail \in {"none", "ctxIn", "ctxOut"} : Connect(sIn, sOut, fail)
    \/ \E a \in Attempts, ok \in BOOLEAN : ResumeIn(a, ok)
    \/ \E a \in Attempts, ok \in BOOLEAN : ResumeOut(a, ok)
    \/ \E a \in Attempts, granted \in BOOLEAN : GetUserMedia(a, granted)
    \/ Disconnect
    \/ \E a \in Attempts : TransportOpen(a)
    \/ \E a \in Attempts : TransportReject(a)
    \/ \E a \in Attempts : TransportError(a)
    \/ \E a \in Attempts : TransportClose(a)

Spec == Init /\ [][Next]_vars

\* A consumer that awaits connect() before it calls it again, in an
\* environment without failures: the input context may be created
\* suspended, the output context runs.
Settled == \A b \in Attempts : pc[b] \in {"idle", "done", "returned", "failed"}
Started == Cardinality({b \in Attempts : pc[b] # "idle"})

SessionSetup ==
    \/ \E a \in Attempts : ResumeIn(a, ctxIn[a] # "closed")
    \/ \E a \in Attempts : GetUserMedia(a, TRUE)
    \/ Disconnect
    \/ \E a \in Attempts : TransportOpen(a)

\* Playback: at most MaxSessions such sessions, the inbound messages of
\* their transports, the playback clock and the sources.
NextPlayback ==
    \/ /\ Settled /\ Started < MaxSessions
       /\ \E sIn \in CtxStates : Connect(sIn, "running", "none")
    \/ SessionSetup
    \/ \E a \in Attempts, m \in Messages : HandleMessage(a, m)
    \/ HandleMessageResume
    \/ Tick
    \/ \E u \in 1..MaxUnits : SourceFinishes(u)
    \/ \E u \in 1..MaxUnits : SourceEnded(u)

SpecPlayback == Init /\ [][NextPlayback]_vars

\* Scheduling across reconnects: up to MaxConnects such sessions, their
\* inbound messages and the playback clock; the sources play on.
NextReconnect ==
    \/ Settled /\ \E sIn \in CtxStates : Connect(sIn, "running", "none")
    \/ SessionSetup
    \/ \E a \in Attempts, m \in Messages : HandleMessage(a, m)
    \/ HandleMessageResume
    \/ Tick

SpecReconnect == Init /\ [][NextReconnect]_vars

----------------------------------------------------------------------------
\* The capture pipeline.

\* onaudioprocess of processor p: the block is resampled and encoded, and
\* its send is chained on the promise the field holds now.  The send runs
\* at once when that promise has resolved and waits for onopen otherwise.
\* A processor fires only while its context runs.
AudioProcess(p) ==
    /\ pending = <<>>
    /\ proc[p] = "attached"
    /\ ctxIn[procCtx[p]] = "running"
    /\ currentSessionPromise # 0
    /\ transport[currentSessionPromise] \in {"pending", "open"}
    /\ outbound[currentSessionPromise] = "none"
    /\ outbound' = [outbound EXCEPT ![currentSessionPromise] =
                       IF transport[currentSessionPromise] = "open"
                       THEN "sent" ELSE "queued"]
    /\ UNCHANGED <<fields, objects, async, seen, history, procCtx, codec>>

\* Capture: connect() and disconnect() calls with contexts that are created
\* running, the microphone, the events of the transports and the capture
\* callbacks.
NextCapture ==
    \/ Connect("running", "running", "none")
    \/ \E a \in Attempts, granted \in BOOLEAN : GetUserMedia(a, granted)
    \/ Disconnect
    \/ \E a \in Attempts : TransportOpen(a)
    \/ \E a \in Attempts : TransportError(a)
    \/ \E a \in Attempts : TransportClose(a)
    \/ \E p \in Attempts : AudioProcess(p)

SpecCapture == Init /\ [][NextCapture]_vars

----------------------------------------------------------------------------
\* The codec applied to one captured block: resampled to the target rate,
\* encoded as an outbound frame, and that frame decoded as the inbound
\* decoder would.

InitCodec ==
    /\ InitService
    /\ inputData \in Blocks
    /\ sampleRate \in NativeRates
    /\ downsampledData = <<>>
    /\ pcmBlob = createPcmBlob(<<>>)
    /\ channelData = <<>>
    /\ stage = "captured"

DownsampleBuffer ==
    /\ stage = "captured"
    /\ downsampledData' = downsampleBuffer(inputData, sampleRate, TargetRate)
    /\ stage' = "downsampled"
    /\ UNCHANGED <<fields, objects, async, seen, history, procCtx, outbound,
                   inputData, sampleRate, pcmBlob, channelData>>

CreatePcmBlob ==
    /\ stage = "downsampled"
    /\ pcmBlob' = createPcmBlob(downsampledData)
    /\ stage' = "encoded"
    /\ UNCHANGED <<fields, objects, async, seen, history, procCtx, outbound,
                   inputData, sampleRate, downsampledData, channelData>>

DecodeAudioData ==
    /\ stage = "encoded"
    /\ channelData' = decodeAudioData(base64ToBytes(pcmBlob.data))
    /\ stage' = "decoded"
    /\ UNCHANGED <<fields, objects, async, seen, history, procCtx, outbound,
                   inputData, sampleRate, downsampledData, pcmBlob>>

NextCodec ==
    \/ DownsampleBuffer
    \/ CreatePcmBlob
    \/ DecodeAudioData

SpecCodec == InitCodec /\ [][NextCodec]_vars

----------------------------------------------------------------------------
\* Properties.

OpenCtx == {"running", "suspended"}

\* What disconnect() is to leave behind: no source in the in-flight set and
\* none still playing, no processor with the capture callback attached, the
\* contexts of the session closed.
Released ==
    /\ audioSources = {}
    /\ \A u \in DOMAIN units : units[u].st # "scheduled"
    /\ \A a \in Attempts : proc[a] # "attached"
    /\ inputAudioContext # 0 => ctxIn[inputAudioContext] = "closed"
    /\ outputAudioContext # 0 => ctxOut[outputAudioContext] = "closed"

\* C1: disconnect() called in a state other than DISCONNECTED leaves every
\* in-flight unit stopped and the set empty, the capture callback detached
\* from every processor that was started, the contexts closed and the state
\* DISCONNECTED.
C1_DisconnectReleasesAll ==
    [][(Disconnect /\ connectionState # "DISCONNECTED")
          => (Released /\ connectionState = "DISCONNECTED")']_vars

\* C2: while the state is DISCONNECTED or ERROR no context created by
\* connect() is open and no playback unit is in flight.
C2_NoResourcesWhenInactive ==
    connectionState \in {"DISCONNECTED", "ERROR"} =>
        /\ \A a \in Attempts : ctxIn[a] \notin OpenCtx /\ ctxOut[a] \notin OpenCtx
        /\ audioSources = {}

\* C3: at most one session exists: never more than one open transport, more
\* than one open pair of contexts or more than one attached processor.
C3_AtMostOneSession ==
    /\ Cardinality({a \in Attempts : transport[a] = "open"}) <= 1
    /\ Cardinality({a \in Attempts :
                      ctxIn[a] \in OpenCtx /\ ctxOut[a] \in OpenCtx}) <= 1
    /\ Cardinality({a \in Attempts : proc[a] = "attached"}) <= 1

\* C4: once the state is DISCONNECTED it stays so, no transport is opened
\* and no capture is started, until connect() is called again.
C4_CancelledAttemptStaysCancelled ==
    [][(/\ connectionState = "DISCONNECTED"
        /\ \A a \in Attempts : (pc[a] = "idle") <=> (pc'[a] = "idle"))
          => /\ connectionState' = "DISCONNECTED"
             /\ \A a \in Attempts :
                   /\ (transport[a] = "none") <=> (transport'[a] = "none")
                   /\ (proc[a] = "none") <=> (proc'[a] = "none")]_vars

\* C5: a frame scheduled after another with no interruption handled between
\* them starts at max(end of the previous frame, playback clock when it is
\* scheduled): never before the previous frame ends, never in the past, and
\* exactly at the previous end when that is not behind the clock.
C5_StartIsMaxOfPreviousEndAndClock ==
    (last.n >= 2 /\ ~last.afterInterrupt)
        => last.start = Max(last.prevEnd, last.clock)

\* C6: the first frame scheduled after an interruption was handled starts
\* at the playback clock's time at that moment.
C6_StartIsClockAfterInterruption ==
    (last.n >= 1 /\ last.afterInterrupt) => last.start = last.clock

\* C7: when a message with the interrupted flag has been handled, no unit
\* is playing (every unit of the set was stopped, or had finished already),
\* the in-flight set is empty and nextStartTime is 0, also when the message
\* carried audio; this stays so until the next message is handled.
C7_InterruptionStopsAll ==
    last.handled = "interrupted" =>
        /\ audioSources = {}
        /\ nextStartTime = 0
        /\ \A u \in DOMAIN units : units[u].st # "scheduled"

\* C7 witness: an interruption has stopped a playing unit and met a unit
\* that had finished, and left the set empty and the cursor at 0.
C7_Witness ==
    /\ last.handled = "interrupted"
    /\ audioSources = {}
    /\ nextStartTime = 0
    /\ \E u \in DOMAIN units : units[u].st = "stopped"
    /\ \E u \in DOMAIN units : units[u].st = "finished"

\* C8: an attempt that fails on a context constructor, a resume or the
\* microphone ends in ERROR, has surfaced exactly that failure's message,
\* once, and has no transport.
C8_SetupFailureEndsInError ==
    [][\A a \in Attempts :
          pc'[a] = "failed" =>
             /\ failure'[a] \in {"ctxIn", "ctxOut", "resumeIn", "resumeOut", "mic"}
             /\ errLog'[a] = <<failure'[a]>>
             /\ transport'[a] = "none"
             /\ pc[a] # "failed" => connectionState' = "ERROR"]_vars

\* C8 witness: the microphone was denied to an attempt whose contexts were
\* created, and the state is ERROR.
C8_Witness ==
    \E a \in Attempts :
        /\ pc[a] = "failed" /\ failure[a] = "mic"
        /\ errLog[a] = <<"mic">>
        /\ connectionState = "ERROR"

\* C9: when the promise of ai.live.connect rejects while the state is
\* CONNECTING, the state becomes ERROR and the error is surfaced.
C9_HandshakeFailureEndsInError ==
    [][\A a \in Attempts :
          (TransportReject(a) /\ connectionState = "CONNECTING")
             => /\ connectionState' = "ERROR"
                /\ Len(errLog'[a]) > Len(errLog[a])]_vars

\* C10: a transport error in CONNECTING or CONNECTED runs the disconnect
\* path, surfaces the error and leaves the state ERROR.
C10_TransportErrorEndsInError ==
    [][\A a \in Attempts :
          (TransportError(a) /\ connectionState \in {"CONNECTING", "CONNECTED"})
             => /\ Released'
                /\ Len(errLog'[a]) > Len(errLog[a])
                /\ connectionState' = "ERROR"]_vars

\* What the disconnect path leaves behind: the contexts the fields hold
\* closed and the in-flight set empty.
DisconnectPathDone ==
    /\ inputAudioContext # 0 => ctxIn[inputAudioContext] = "closed"
    /\ outputAudioContext # 0 => ctxOut[outputAudioContext] = "closed"
    /\ audioSources = {}

\* C11: whenever onError is called for a failure (by the transport's onerror
\* before it does anything else, by the catch block of connect() after the
\* statements of the try block that ran), the contexts are closed already
\* and the in-flight set is empty.
C11_ReleasedWhenErrorSurfaced ==
    [][\A a \in Attempts :
          /\ TransportError(a) => DisconnectPathDone
          /\ (pc[a] # "failed" /\ pc'[a] = "failed") => DisconnectPathDone']_vars

\* C12: a connect() called while the state is ERROR starts nothing: the
\* state stays ERROR, no context is created and no transport opened.
C12_ErrorIsTerminal ==
    [][(/\ connectionState = "ERROR"
        /\ \E a \in Attempts : pc[a] = "idle" /\ pc'[a] # "idle")
          => /\ connectionState' = "ERROR"
             /\ UNCHANGED <<ctxIn, ctxOut, transport>>]_vars

\* C13: disconnect() called while the state is DISCONNECTED changes nothing:
\* no field, no object behind a field, and nothing is passed to a callback.
C13_DisconnectWhenDisconnectedIsNoOp ==
    [][(Disconnect /\ connectionState = "DISCONNECTED") => UNCHANGED vars]_vars

\* C13 witness: the state is DISCONNECTED after a disconnect() while an
\* earlier connect() has since delivered an analyser and another waits for
\* the microphone: a second disconnect() would have things to release.
C13_Witness ==
    /\ connectionState = "DISCONNECTED"
    /\ analyserNode # 0
    /\ \E a \in Attempts : ctxIn[a] = "closed"
    /\ ENABLED Disconnect

\* C14: connect() called while the state is CONNECTED changes nothing: the
\* state, the contexts, the transports, the processors and what the
\* callbacks have received are as before; the call just returns.
C14_ConnectWhenConnectedIsNoOp ==
    [][(/\ connectionState = "CONNECTED"
        /\ \E a \in Attempts : pc[a] = "idle" /\ pc'[a] # "idle")
          => UNCHANGED <<fields, objects, seen, capture, resumeOutCtx,
                         pending>>]_vars

\* C14 witness: a connect() has returned at its guard and the session it
\* found is still CONNECTED, with its transport open.
C14_Witness ==
    /\ connectionState = "CONNECTED"
    /\ \E a \in Attempts : pc[a] = "returned"
    /\ \E a \in Attempts : transport[a] = "open" /\ proc[a] = "attached"

\* C15: a close event of the transport of attempt a while the state is
\* CONNECTING or CONNECTED acts as disconnect() is to act: nothing left
\* playing, no capture callback attached, the contexts of that session and
\* of the fields closed, state DISCONNECTED, and onError not called.
C15_CloseActsAsDisconnect ==
    [][\A a \in Attempts :
          (TransportClose(a) /\ connectionState \in {"CONNECTING", "CONNECTED"})
             => /\ Released'
                /\ ctxIn'[a] = "closed" /\ ctxOut'[a] = "closed"
                /\ connectionState' = "DISCONNECTED"
                /\ errLog' = errLog]_vars

\* The effect of a message whose audio payload is dropped: that of the same
\* message without a payload.
Dropped(flag) ==
    /\ UNCHANGED <<connectionState, errLog, analyserNode, ctxIn, ctxOut,
                   proc, transport, currentTime>>
    /\ IF flag
       THEN /\ nextStartTime' = 0
            /\ audioSources' = {}
            /\ units' = stopAllAudio(units, audioSources).units
       ELSE UNCHANGED <<nextStartTime, audioSources, units>>

\* C16: a handleMessage call whose audio payload is malformed (invalid
\* base64, or an odd number of bytes) leaves the state, the cursor, the
\* in-flight set and the units as they are, calls neither onError nor
\* disconnect, and handles the interrupted flag of the message as usual.
C16_MalformedFrameIsDropped ==
    [][/\ \A a \in Attempts, m \in Messages :
             (m.audio \in {"badB64", "odd"} /\ HandleMessage(a, m))
                => Dropped(m.interrupted /\ pending' = pending)
       /\ (/\ pending # <<>>
           /\ Head(pending).audio \in {"badB64", "odd"}
           /\ HandleMessageResume)
             => Dropped(Head(pending).interrupted)]_vars

\* C16 witness: a malformed frame without the interrupted flag was handled
\* with the clock ahead of the cursor and a unit in the in-flight set, and
\* that unit is still scheduled.
C16_Witness ==
    /\ last.malformed /\ last.handled = "plain"
    /\ pending = <<>>
    /\ connectionState = "CONNECTED"
    /\ currentTime > nextStartTime
    /\ \E u \in audioSources : units[u].st = "scheduled"

\* C17: an outbound frame is handed to the transport (by the capture
\* callback itself, or when the session promise its send was queued on
\* resolves) only at a moment when the state is CONNECTED.
C17_SendsOnlyWhileConnected ==
    [][\A a \in Attempts :
          (outbound[a] # "sent" /\ outbound'[a] = "sent")
             => connectionState' = "CONNECTED"]_vars

Abs(x) == IF x >= 0 THEN x ELSE -x

\* C18: the samples of an outbound frame are at 16 kHz: the frame made from
\* a block holds as many samples as the block's duration takes at 16 kHz,
\* to the nearest sample, whatever the native rate of the input device.
C18_FrameIsAtTargetRate ==
    stage # "captured" =>
        2 * Abs(Len(downsampledData) * sampleRate - Len(inputData) * TargetRate)
            <= sampleRate

\* The 16-bit sample v, decoded as v / 32768, is within 1/32768 of x.
Within(x, v) ==
    IF x.den % Scale = 0
    THEN Abs(v * (x.den \div Scale) - x.num) <= x.den \div Scale
    ELSE Abs(v * x.den - x.num * Scale) <= x.den

\* C19: a block encoded by createPcmBlob and decoded by base64ToBytes and
\* decodeAudioData has its length, and every sample of it that lies in
\* [-1, 1] comes back within 1/32768 of its value.
C19_RoundTripWithinQuantum ==
    stage = "decoded" =>
        /\ Len(channelData) = Len(downsampledData)
        /\ \A i \in 1..Len(downsampledData) :
              Abs(downsampledData[i].num) <= downsampledData[i].den
                 => Within(downsampledData[i], channelData[i].num)

\* C20: downsampleBuffer returns the block it was given, same length and
\* same samples in order, when the input rate is the target rate or lower.
C20_PassThroughAtOrBelowTarget ==
    (stage # "captured" /\ sampleRate <= TargetRate)
        => downsampledData = inputData

\* C20 witness: a block of two different samples captured at a rate below
\* the target rate went through downsampleBuffer and came out as it was.
C20_Witness ==
    /\ stage = "downsampled"
    /\ sampleRate < TargetRate
    /\ Len(inputData) >= 2 /\ inputData[1] # inputData[2]
    /\ downsampledData = inputData

\* C21: for an input rate R above the target rate T, the block that
\* downsampleBuffer returns for L samples has round(L * T / R) samples,
\* halves rounded up, which is 1365 for 4096 samples at 48 kHz; the one
\* frame that createPcmBlob makes of it carries that many 16-bit samples.
C21_OutputLength ==
    /\ round(4096 * TargetRate, 48000) = 1365
    /\ (stage # "captured" /\ sampleRate > TargetRate) =>
          /\ Len(downsampledData) =
                (2 * Len(inputData) * TargetRate + sampleRate)
                    \div (2 * sampleRate)
          /\ stage \in {"encoded", "decoded"} =>
                Len(int16Of(base64ToBytes(pcmBlob.data))) = Len(downsampledData)

\* C21 witness: one sample captured at 32 kHz, half an output sample, was
\* rounded up to a block of one sample and encoded as a frame.
C21_Witness ==
    /\ stage = "encoded"
    /\ sampleRate = 2 * TargetRate
    /\ Len(inputData) = 1
    /\ Len(downsampledData) = 1
    /\ Len(pcmBlob.data) = 4

\* C22: while the state is DISCONNECTED or ERROR, the value passed last to
\* onAnalyzerReady is null.
C22_NoAnalyserWhenInactive ==
    connectionState \in {"DISCONNECTED", "ERROR"} => analyserNode = 0

\* C23: a decodable audio payload that arrives while the state is CONNECTED
\* is queued for decoding behind the ones that arrived before it, and when
\* its decoding completes it is scheduled, once, as the newest unit.
C23_EveryFrameScheduledInOrder ==
    [][/\ \A a \in Attempts, m \in Messages :
             (m.audio = "ok" /\ connectionState = "CONNECTED"
                 /\ HandleMessage(a, m))
                => pending' = Append(pending, m)
       /\ (/\ pending # <<>>
           /\ Head(pending).audio = "ok"
           /\ connectionState = "CONNECTED"
           /\ HandleMessageResume)
             => /\ Len(units') = Len(units) + 1
                /\ last'.n = Len(units')
                /\ last'.dur = Head(pending).dur]_vars

\* C24: every unit that is scheduled and has not played to its end or been
\* stopped is in the in-flight set, and the set holds nothing else but units
\* that finished and whose 'ended' event has not fired yet; the 'ended'
\* event of a unit that a forced stop removed leaves the set as it is.
C24_InFlightSetIsExact ==
    /\ [](/\ \A u \in DOMAIN units :
                units[u].st = "scheduled" => u \in audioSources
          /\ \A u \in audioSources :
                u \in DOMAIN units /\ units[u].st \in {"scheduled", "finished"})
    /\ [][\A u \in DOMAIN units :
             (SourceEnded(u) /\ u \notin audioSources)
                => audioSources' = audioSources]_vars

\* C24 witness: one unit is scheduled and in the set while the 'ended' event
\* of another, stopped by an interruption and removed, has fired.
C24_Witness ==
    /\ \E u \in audioSources : units[u].st = "scheduled"
    /\ \E u \in DOMAIN units : units[u] = Ended /\ u \notin audioSources
    /\ last.afterInterrupt

\* C25: no outbound frame is dropped: a frame whose send is queued on a
\* session promise is queued on one that can still resolve and send it.
C25_QueuedFramesAreSent ==
    \A a \in Attempts : outbound[a] = "queued" => transport[a] = "pending"

\* The input indices (from 0) in [round(i * r), round((i + 1) * r)) that are
\* below the input length, for r = sampleRate / TargetRate.
WindowOf(i) ==
    {j \in 0..(Len(inputData) - 1) :
        /\ (2 * i * sampleRate + TargetRate) \div (2 * TargetRate) <= j
        /\ j < (2 * (i + 1) * sampleRate + TargetRate) \div (2 * TargetRate)}

RECURSIVE SumNum(_, _)
SumNum(buffer, S) ==
    IF S = {} THEN 0
    ELSE LET j == CHOOSE k \in S : TRUE
         IN  buffer[j + 1].num + SumNum(buffer, S \ {j})

\* C26: for an input rate above the target rate, output sample i of
\* downsampleBuffer is the mean of the input samples in its window, 0 for an
\* empty window, and no input sample lies in two windows.
C26_OutputIsWindowMean ==
    (stage # "captured" /\ sampleRate > TargetRate) =>
        /\ \A i \in 0..(Len(downsampledData) - 1) :
              IF WindowOf(i) = {}
              THEN downsampledData[i + 1].num = 0
              ELSE downsampledData[i + 1] =
                      [num |-> SumNum(inputData, WindowOf(i)),
                       den |-> inputData[1].den * Cardinality(WindowOf(i))]
        /\ \A j \in 0..(Len(inputData) - 1) :
              Cardinality({i \in 0..(Len(downsampledData) - 1) :
                              j \in WindowOf(i)}) <= 1

\* C26 witness: three different samples captured at 22050 Hz became two
\* output samples, the first the mean of one sample, the second of two.
C26_Witness ==
    /\ stage = "downsampled"
    /\ sampleRate > TargetRate
    /\ Len(inputData) = 3 /\ Len(downsampledData) = 2
    /\ inputData[1] # inputData[2] /\ inputData[2] # inputData[3]
    /\ Cardinality(WindowOf(0)) = 1 /\ Cardinality(WindowOf(1)) = 2

\* A step that runs the disconnect path: a disconnect() call, or the
\* onerror or onclose of a transport, in a state other than DISCONNECTED.
DisconnectPathRuns ==
    /\ connectionState # "DISCONNECTED"
    /\ \/ Disconnect
       \/ \E a \in Attempts : TransportError(a)
       \/ \E a \in Attempts : TransportClose(a)

\* C27: close() is called at most once on a context: the disconnect path
\* never finds in the fields a context that is closed already.
C27_CloseAtMostOnce ==
    [][DisconnectPathRuns =>
          /\ inputAudioContext # 0 => ctxIn[inputAudioContext] # "closed"
          /\ outputAudioContext # 0 => ctxOut[outputAudioContext] # "closed"]_vars

\* C28: when the interrupted flag of a message is handled, no audio message
\* that arrived before it still waits at its decode, where it would complete
\* after the interruption and add its unit to the in-flight set.
C28_NoDecodeOutlivesInterruption ==
    [][\A a \in Attempts, m \in Messages :
          (m.interrupted /\ HandleMessage(a, m) /\ pending' = pending)
             => \A i \in DOMAIN pending : pending[i].audio # "ok"]_vars

\* C29: a close or error event from the transport of an earlier session,
\* one that was disconnected, leaves a later session that is CONNECTED on
\* its own open transport as it is.
C29_OldTransportLeavesNewSessionAlone ==
    [][\A a \in Attempts :
          (/\ TransportClose(a) \/ TransportError(a)
           /\ ctxIn[a] = "closed"
           /\ currentSessionPromise > a
           /\ transport[currentSessionPromise] = "open"
           /\ connectionState = "CONNECTED")
             => /\ connectionState' = "CONNECTED"
                /\ ctxIn' = ctxIn /\ ctxOut' = ctxOut /\ proc' = proc]_vars

\* C30: the first frame scheduled on the output context of a session that a
\* connect() started after the earlier sessions were disconnected starts at
\* that context's clock time when it is scheduled.
C30_CursorStartsAtClockInNewSession ==
    (/\ last.n >= 1 /\ last.n = Len(units)
     /\ units[last.n].ctx > 1
     /\ \A u \in 1..(last.n - 1) : units[u].ctx # units[last.n].ctx
     /\ \A b \in 1..(units[last.n].ctx - 1) : ctxOut[b] = "closed")
        => last.start = last.clock
====
